---- MODULE Spec2Model ----
(***************************************************************************)
(* A model of telegram-bot-muxer's client (client.go) and of the part of   *)
(* its configuration (config.go) that the client reads.                    *)
(*                                                                         *)
(*  - the Ingestor: Client.StartPolling, with Client.sleepUntilRetry and   *)
(*    Client.resetRetry;                                                   *)
(*  - the Forwarder: Client.ForwardRequest, with the echo handlers         *)
(*    processEchoMessage / processEchoMessageEdit /                        *)
(*    processEchoMessageArray and Client.updateRateLimit;                  *)
(*  - the Store (type Database): its source is not part of src/, so it is  *)
(*    modelled from the specification's section 4.1.                       *)
(*                                                                         *)
(* time.Duration is a signed 64-bit count of nanoseconds.  TLC's integers  *)
(* are narrower than that, so a Duration is held as four 16-bit limbs,     *)
(* least significant first, in two's complement, and the arithmetic of     *)
(* sleepUntilRetry wraps exactly as the Go arithmetic does.                *)
(*                                                                         *)
(* time.Time instants of the rate limiter are read off a discrete clock,   *)
(* `now`, that runs at TicksPerSecond ticks per second; the smallest       *)
(* positive duration (Go's 1 ns) is one tick.                              *)
(***************************************************************************)
EXTENDS Integers, Sequences, FiniteSets, TLC

(***************************************************************************)
(* Bounds of the model.                                                    *)
(***************************************************************************)
\* how many updates the upstream holds in all
NumUpdates == 2
\* the longest result array of one getUpdates response
MaxBatch == 2
\* how many sleeps since the last reset the sleep log remembers
MaxSleeps == 7
\* how many Forwarder tasks run at a time
NumFwd == 2
\* how many downstream requests arrive in all, in the runs where every
\* request succeeds
MaxRequests == 3
\* how many downstream requests arrive in all, in the runs with failures
FwdRequests == 2
\* the clock stops at MaxTime
MaxTime == 3
\* clock ticks per second
TicksPerSecond == 2

(***************************************************************************)
(* 64-bit integers as limbs.                                               *)
(***************************************************************************)
Base == 2 ^ 16

Limbs == 64 \div 16

\* the limbs of a natural number n < 2^31, in a word of w limbs
RECURSIVE ToLimbs(_, _)
ToLimbs(n, w) ==
    IF w = 0 THEN << >> ELSE << n % Base >> \o ToLimbs(n \div Base, w - 1)

\* x * k for a small k, in Len(x) limbs: the carry out of the top limb is lost
RECURSIVE MulCarry(_, _, _, _)
MulCarry(x, k, i, carry) ==
    IF i > Len(x) THEN << >>
    ELSE LET v == x[i] * k + carry
         IN  << v % Base >> \o MulCarry(x, k, i + 1, v \div Base)

MulSmall(x, k) == MulCarry(x, k, 1, 0)

\* x * 10^9
MulBillion(x) == MulSmall(MulSmall(MulSmall(x, 1000), 1000), 1000)

\* x read as a two's complement number is negative
IsNeg(x) == x[Len(x)] >= Base \div 2

RECURSIVE UnsignedLess(_, _, _)
UnsignedLess(x, y, i) ==
    IF i = 0 THEN FALSE
    ELSE IF x[i] # y[i] THEN x[i] < y[i]
    ELSE UnsignedLess(x, y, i - 1)

\* x < y, both read as two's complement numbers of the same width
SignedLess(x, y) ==
    IF IsNeg(x) # IsNeg(y) THEN IsNeg(x) ELSE UnsignedLess(x, y, Len(x))

\* x zero-extended to w limbs
Widen(x, w) == x \o [i \in 1..(w - Len(x)) |-> 0]

\* Go's min on two Durations
MinDuration(x, y) == IF SignedLess(y, x) THEN y ELSE x

\* time.Second: 10^9 ns
TimeSecond == ToLimbs(1000000000, Limbs)

(***************************************************************************)
(* Configuration (config.go).  Load accepts every max_retry_interval of    *)
(* 60 or more; the field is a uint64 number of seconds.                    *)
(***************************************************************************)
\* 2^63 seconds
HugeMaxRetry == [i \in 1..Limbs |-> IF i = Limbs THEN Base \div 2 ELSE 0]

\* Load's check of upstream.max_retry_interval
LoadAcceptsMaxRetry(m) == ~ UnsignedLess(m, ToLimbs(60, Limbs), Limbs)

\* the values of upstream.max_retry_interval the model runs with
MaxRetryChoices ==
    { m \in { ToLimbs(59, Limbs), ToLimbs(60, Limbs), HugeMaxRetry } :
        LoadAcceptsMaxRetry(m) }

\* time.Duration(c.conf.Upstream.MaxRetryInterval) * time.Second
MaxRetryDuration(m) == MulBillion(m)

(***************************************************************************)
(* Payloads.  A message is what gjson reads of it: chat.id, chat.type and  *)
(* message_id (0 and "" when absent), and rev tells an edit from the       *)
(* original.                                                               *)
(***************************************************************************)
PrivateChat == 100
GroupChat == 200

Msg(chat, type, mid, rev) ==
    [chat_id |-> chat, chat_type |-> type, message_id |-> mid, rev |-> rev]

NoMsg == Msg(0, "", 0, 0)

typesNeedCaching ==
    { "message", "edited_message", "channel_post", "edited_channel_post",
      "business_message", "edited_business_message" }

(***************************************************************************)
(* The upstream's updates: update_id and exactly one update-type key.      *)
(***************************************************************************)
FirstUpdateID == 40

LastUpdateID == FirstUpdateID + NumUpdates - 1

UpstreamUpdate(uid) ==
    CASE (uid - FirstUpdateID) % 3 = 0 ->
            [update_id |-> uid, type |-> "message",
             value |-> Msg(PrivateChat, "private", uid, 0)]
      [] (uid - FirstUpdateID) % 3 = 1 ->
            [update_id |-> uid, type |-> "callback_query", value |-> NoMsg]
      [] OTHER ->
            [update_id |-> uid, type |-> "edited_message",
             value |-> Msg(PrivateChat, "private", uid - 2, 1)]

\* the result arrays the upstream may answer getUpdates?offset=off with
UpstreamResults(off) ==
    LET from == IF off < FirstUpdateID THEN FirstUpdateID ELSE off
    IN  { [i \in 1..n |-> UpstreamUpdate(from + i - 1)] :
            n \in { k \in 0..MaxBatch : from + k - 1 <= LastUpdateID } }

\* the HTTP status codes the model answers with
Statuses == { 101, 200, 302, 400, 401, 500, 502 }

(***************************************************************************)
(* State.                                                                  *)
(***************************************************************************)
VARIABLES
    \* configuration, fixed at start
    conf,
    \* ---- the Ingestor (StartPolling) ----
    ipc,                \* where the loop is
    offset,             \* the upstream offset
    sentOffset,         \* the offset parameter of the request last composed
    lastResp,           \* how the request last issued ended
    batch,              \* the result array being stored
    bi,                 \* index into batch of the update stored next
    nextRetryInterval,  \* c.nextRetryInterval
    ctxCancelled,       \* the context given to StartPolling is cancelled
    pollReturn,         \* what StartPolling returned, "" while it runs
    \* ---- the Store ----
    updates,            \* the committed update log, in commit order
    cache,              \* the committed message cache
    nextLocalID,        \* the local_id generator
    tx,                 \* the open transaction of each task
    \* ---- the rate limiter and the Forwarder (ForwardRequest) ----
    now,                \* the clock
    globalCooldown,     \* c.globalCooldown
    chatCooldown,       \* c.chatCooldown: chat id -> instant
    cooldownMutex,      \* c.cooldownMutex: 0, or the task holding Lock()
    fw,                 \* the Forwarder tasks: the request each one serves
    started,            \* how many downstream requests have arrived
    env,                \* what the surroundings do in this run: the requests
                        \* that may arrive (menu), how many (requests) and
                        \* the failures that may happen (faults)
    \* ---- history, for stating properties ----
    sleepLog,           \* the sleeps since the last resetRetry, oldest first
    iterNotifies,       \* NotifyUpdates calls of the current poll iteration
    failedUIDs,         \* update_ids whose insert or commit failed, last batch
    lastCommit,         \* what the latest successful commit committed
    owed,               \* chat id -> the latest now + window a finished
                        \* updateRateLimit call computed for the chat
    lastSend            \* chat id -> when a send to it last went upstream

ingestVars ==
    << ipc, offset, sentOffset, lastResp, batch, bi, nextRetryInterval,
       ctxCancelled, pollReturn, sleepLog, iterNotifies, failedUIDs >>

storeVars == << updates, cache, nextLocalID, tx, lastCommit >>

rateVars == << now, globalCooldown, chatCooldown, cooldownMutex >>

fwdVars == << rateVars, fw, started, env, owed, lastSend >>

vars == << conf, ingestVars, storeVars, fwdVars >>

\* the task number of the Ingestor; Forwarder tasks are numbered from 1
Ingestor == 0

Procs == 1..NumFwd

Tasks == { Ingestor } \cup Procs

(***************************************************************************)
(* The Store (spec section 4.1).                                           *)
(***************************************************************************)
NoTx == [open |-> FALSE, rows |-> << >>, msgs |-> << >>]

\* begin() succeeded
TxBegun == [open |-> TRUE, rows |-> << >>, msgs |-> << >>]

HasKey(m) == m.chat_id # 0 /\ m.message_id # 0

SameKey(a, b) == a.chat_id = b.chat_id /\ a.message_id = b.message_id

\* Tx.upsert_message succeeded: a no-op when chat.id or message_id is absent
TxUpsertMessage(t, m) ==
    IF HasKey(m) THEN [t EXCEPT !.msgs = Append(@, m)] ELSE t

\* Tx.insert_update succeeded: the row gets the fresh local_id lid
TxInsertUpdate(t, lid, uid, kind, payload, origin) ==
    [t EXCEPT !.rows = Append(@, [local_id |-> lid, update_id |-> uid,
                                  kind |-> kind, payload |-> payload,
                                  origin |-> origin])]

\* the message cache after the upserts ms, applied in order
RECURSIVE ApplyUpserts(_, _)
ApplyUpserts(c, ms) ==
    IF ms = << >> THEN c
    ELSE ApplyUpserts({ e \in c : ~ SameKey(e, Head(ms)) } \cup { Head(ms) },
                      Tail(ms))

\* Tx.commit by task o: ok tells whether it succeeds.  What the
\* transaction's successful statements wrote is committed, all of it or
\* nothing.
Commit(o, ok) ==
    /\ tx' = [tx EXCEPT ![o] = NoTx]
    /\ IF ok
       THEN /\ updates' = updates \o tx[o].rows
            /\ cache' = ApplyUpserts(cache, tx[o].msgs)
            /\ lastCommit' = [rows |-> tx[o].rows, msgs |-> tx[o].msgs]
       ELSE UNCHANGED << updates, cache, lastCommit >>

(***************************************************************************)
(* The retry controller.                                                   *)
(***************************************************************************)
\* the sleep log with one more sleep, of d
Logged(d) ==
    IF Len(sleepLog) < MaxSleeps THEN Append(sleepLog, d) ELSE sleepLog

\* sleepUntilRetry is entered: time.Sleep(c.nextRetryInterval) begins
EnterSleep ==
    /\ ipc' = "sleep"
    /\ sleepLog' = Logged(nextRetryInterval)
    /\ UNCHANGED << nextRetryInterval, pollReturn >>

\* resetRetry
ResetRetry ==
    /\ nextRetryInterval' = TimeSecond
    /\ sleepLog' = << >>

(***************************************************************************)
(* The Ingestor: Client.StartPolling.                                      *)
(***************************************************************************)
\* a variant that takes every status from 200 up for a success
RequestSucceedNoUpperEnd(status) == status >= 200

\* a variant that takes every status from 400 up for fatal
FailureIsFatalNoUpperEnd(status) == status >= 400

\* requestSucceed := resp.StatusCode >= 200 && resp.StatusCode < 300
RequestSucceed(status) == status >= 200 /\ status < 300

\* failureIsFatal := resp.StatusCode >= 400 && resp.StatusCode < 500
FailureIsFatal(status) == status >= 400 /\ status < 500

NoResp == [err |-> FALSE, status |-> 0, readOK |-> FALSE, ok |-> FALSE,
           result |-> << >>]

\* the ways http.DefaultClient.Do and the reading of the body can end for a
\* request with offset parameter off
Responses(off) ==
    { [NoResp EXCEPT !.err = TRUE] }
      \cup { [NoResp EXCEPT !.status = s] :
               s \in { c \in Statuses : ~ RequestSucceed(c) } }
      \cup { [NoResp EXCEPT !.status = s, !.readOK = rd] :
               s \in { c \in Statuses : RequestSucceed(c) }, rd \in BOOLEAN }
      \cup { [NoResp EXCEPT !.status = s, !.readOK = TRUE, !.ok = TRUE,
                            !.result = res] :
               s \in { c \in Statuses : RequestSucceed(c) },
               res \in UpstreamResults(off) }

\* the request is composed: the offset parameter is left out while offset = 0
PollCompose ==
    /\ ipc = "compose"
    /\ iterNotifies' = 0
    /\ IF conf.urlOK
       THEN /\ ipc' = "inflight"
            /\ sentOffset' = [has |-> offset # 0, val |-> offset]
            /\ UNCHANGED pollReturn
       ELSE /\ ipc' = "done"
            /\ pollReturn' = "failed to send HTTP request"
            /\ UNCHANGED sentOffset
    /\ UNCHANGED fwdVars
    /\ UNCHANGED << conf, offset, lastResp, batch, bi, nextRetryInterval,
                    ctxCancelled, sleepLog, failedUIDs, storeVars >>

\* the request ends, and the response is classified
PollDo ==
    /\ ipc = "inflight"
    /\ \E r \in Responses(sentOffset.val) :
        /\ ctxCancelled => r.err
        /\ lastResp' = [r EXCEPT !.result = << >>]
        /\ IF r.err
           THEN EnterSleep /\ UNCHANGED batch
           ELSE IF FailureIsFatal(r.status)
           THEN /\ ipc' = "done"
                /\ pollReturn' = "HTTP error"
                /\ UNCHANGED << batch, nextRetryInterval, sleepLog >>
           ELSE IF ~ RequestSucceed(r.status)
           THEN EnterSleep /\ UNCHANGED batch
           ELSE IF ~ r.readOK
           THEN EnterSleep /\ UNCHANGED batch
           ELSE IF ~ r.ok
           THEN EnterSleep /\ UNCHANGED batch
           ELSE /\ ipc' = "begin"
                /\ batch' = r.result
                /\ UNCHANGED << nextRetryInterval, sleepLog, pollReturn >>
    /\ UNCHANGED fwdVars
    /\ UNCHANGED << conf, offset, sentOffset, bi, ctxCancelled, iterNotifies,
                    failedUIDs, storeVars >>

\* c.db.BeginTx()
PollBegin ==
    /\ ipc = "begin"
    /\ \E ok \in BOOLEAN :
        IF ok
        THEN /\ tx' = [tx EXCEPT ![Ingestor] = TxBegun]
             /\ bi' = 1
             /\ failedUIDs' = {}
             /\ ipc' = IF batch = << >> THEN "commit" ELSE "insert"
             /\ UNCHANGED << nextRetryInterval, sleepLog, pollReturn >>
        ELSE /\ EnterSleep
             /\ UNCHANGED << tx, bi, failedUIDs >>
    /\ UNCHANGED fwdVars
    /\ UNCHANGED << conf, offset, sentOffset, lastResp, batch, ctxCancelled,
                    iterNotifies, updates, cache, nextLocalID, lastCommit >>

\* a variant that keeps its first argument
MaxKeepsFirst(a, b) == a

\* the builtin max of Go
Max(a, b) == IF a >= b THEN a ELSE b

\* one update of the result array: the offset moves, then the update's key
\* is cached (when its type needs caching) and inserted
PollInsert ==
    /\ ipc = "insert"
    /\ LET u == batch[bi]
           caching == u.type \in typesNeedCaching
           cached == IF caching THEN TxUpsertMessage(tx[Ingestor], u.value)
                     ELSE tx[Ingestor]
       IN  /\ offset' = Max(offset, u.update_id + 1)
           /\ \E out \in { "ok", "InsertMessage fails", "InsertUpdate fails" } :
                CASE out = "ok" ->
                       /\ tx' = [tx EXCEPT ![Ingestor] =
                                   TxInsertUpdate(cached, nextLocalID,
                                                  u.update_id, u.type,
                                                  u.value, "upstream")]
                       /\ nextLocalID' = nextLocalID + 1
                       /\ bi' = bi + 1
                       /\ ipc' = IF bi = Len(batch) THEN "commit" ELSE "insert"
                       /\ UNCHANGED failedUIDs
                  [] out = "InsertMessage fails" ->
                       /\ caching
                       /\ failedUIDs' = failedUIDs \cup { u.update_id }
                       /\ ipc' = "failcommit"
                       /\ UNCHANGED << tx, nextLocalID, bi >>
                  [] out = "InsertUpdate fails" ->
                       /\ tx' = [tx EXCEPT ![Ingestor] = cached]
                       /\ failedUIDs' = failedUIDs \cup { u.update_id }
                       /\ ipc' = "failcommit"
                       /\ UNCHANGED << nextLocalID, bi >>
    /\ UNCHANGED fwdVars
    /\ UNCHANGED << conf, sentOffset, lastResp, batch, nextRetryInterval,
                    ctxCancelled, pollReturn, sleepLog, iterNotifies, updates,
                    cache, lastCommit >>

\* the update_ids of the rows of the Ingestor's transaction
TxUIDs == { tx[Ingestor].rows[i].update_id : i \in DOMAIN tx[Ingestor].rows }

\* a variant that does not call NotifyUpdates after a failed insert
PollFailCommitNoNotify ==
    /\ ipc = "failcommit"
    /\ \E ok \in BOOLEAN :
        /\ Commit(Ingestor, ok)
        /\ failedUIDs' = IF ok THEN failedUIDs ELSE failedUIDs \cup TxUIDs
    /\ UNCHANGED iterNotifies
    /\ EnterSleep
    /\ UNCHANGED fwdVars
    /\ UNCHANGED << conf, offset, sentOffset, lastResp, batch, bi,
                    ctxCancelled, nextLocalID >>

\* an insert failed: tx.Commit() with its result dropped, NotifyUpdates,
\* sleepUntilRetry
PollFailCommit ==
    /\ ipc = "failcommit"
    /\ \E ok \in BOOLEAN :
        /\ Commit(Ingestor, ok)
        /\ failedUIDs' = IF ok THEN failedUIDs ELSE failedUIDs \cup TxUIDs
    /\ iterNotifies' = iterNotifies + 1
    /\ EnterSleep
    /\ UNCHANGED fwdVars
    /\ UNCHANGED << conf, offset, sentOffset, lastResp, batch, bi,
                    ctxCancelled, nextLocalID >>

\* every insert succeeded: tx.Commit(), NotifyUpdates, then resetRetry or,
\* when the commit failed, sleepUntilRetry
PollCommit ==
    /\ ipc = "commit"
    /\ \E ok \in BOOLEAN :
        /\ Commit(Ingestor, ok)
        /\ IF ok
           THEN /\ ResetRetry
                /\ ipc' = "compose"
                /\ UNCHANGED << failedUIDs, pollReturn >>
           ELSE /\ EnterSleep
                /\ failedUIDs' = failedUIDs \cup TxUIDs
    /\ iterNotifies' = iterNotifies + 1
    /\ UNCHANGED fwdVars
    /\ UNCHANGED << conf, offset, sentOffset, lastResp, batch, bi,
                    ctxCancelled, nextLocalID >>

\* time.Sleep returns: the interval doubles, up to the configured maximum
PollWake ==
    /\ ipc = "sleep"
    /\ \E doubled \in { MulSmall(nextRetryInterval, 2) },
          limit \in { MaxRetryDuration(conf.MaxRetryInterval) } :
            nextRetryInterval' = MinDuration(doubled, limit)
    /\ ipc' = "compose"
    /\ UNCHANGED fwdVars
    /\ UNCHANGED << conf, offset, sentOffset, lastResp, batch, bi,
                    ctxCancelled, pollReturn, sleepLog, iterNotifies,
                    failedUIDs, storeVars >>

\* the caller cancels the context it gave StartPolling
PollCancel ==
    /\ ipc # "done"
    /\ ~ ctxCancelled
    /\ ctxCancelled' = TRUE
    /\ UNCHANGED fwdVars
    /\ UNCHANGED << conf, ipc, offset, sentOffset, lastResp, batch, bi,
                    nextRetryInterval, pollReturn, sleepLog, iterNotifies,
                    failedUIDs, storeVars >>

IngestorStep ==
    \/ PollCompose
    \/ PollDo
    \/ PollBegin
    \/ PollInsert
    \/ PollFailCommit
    \/ PollCommit
    \/ PollWake

(***************************************************************************)
(* The rate limiter.                                                       *)
(***************************************************************************)
\* time.Second, in ticks of the clock
OneSecond == TicksPerSecond

\* the deadline ForwardRequest reads under the read lock
Cooldown(chatID) ==
    IF chatID \in DOMAIN chatCooldown /\ chatCooldown[chatID] > globalCooldown
    THEN chatCooldown[chatID]
    ELSE globalCooldown

\* updateRateLimit: now.Add(time.Second/30 + 1)
GlobalAfter(t) == t + (OneSecond \div 30 + 1)

\* a variant that gives every chat the cooldown of a private chat
ChatAfterAlwaysPrivate(t, chatType) == t + OneSecond

\* updateRateLimit: now.Add(time.Second) for a private chat, else
\* now.Add(3 * time.Second)
ChatAfter(t, chatType) ==
    IF chatType = "private" THEN t + OneSecond ELSE t + 3 * OneSecond

\* the map m with m[k] = v
MapSet(m, k, v) ==
    [c \in DOMAIN m \cup { k } |-> IF c = k THEN v ELSE m[c]]

\* m[k], or 0 when k is no key of m
MapGet(m, k) == IF k \in DOMAIN m THEN m[k] ELSE 0

(***************************************************************************)
(* The echo table of NewClient.                                            *)
(***************************************************************************)
SingleSends ==
    { "sendMessage", "forwardMessage", "copyMessage", "sendPhoto",
      "sendAudio", "sendDocument", "sendVideo", "sendAnimation", "sendVoice",
      "sendVideoNote", "sendPaidMedia", "sendLocation", "sendVenue",
      "sendContact", "sendPoll", "sendDice" }

ArraySends == { "sendMediaGroup" }

Edits ==
    { "editMessageText", "editMessageCaption", "editMessageMedia",
      "editMessageLiveLocation", "stopMessageLiveLocation",
      "editMessageReplyMarkup" }

\* a variant of the table that gives the edits the handler of the sends
echoProcessorEditsAsSends(suffix) ==
    IF suffix \in SingleSends \cup Edits THEN "processEchoMessage"
    ELSE IF suffix \in ArraySends THEN "processEchoMessageArray"
    ELSE "nil"

\* c.echoProcessor[suffix]
echoProcessor(suffix) ==
    IF suffix \in SingleSends THEN "processEchoMessage"
    ELSE IF suffix \in ArraySends THEN "processEchoMessageArray"
    ELSE IF suffix \in Edits THEN "processEchoMessageEdit"
    ELSE "nil"

(***************************************************************************)
(* Downstream requests and the upstream's answers to them.                 *)
(***************************************************************************)
\* chat_id is what strconv.ParseInt makes of the form value: 0 when the
\* value is absent or no number
Req(isFile, suffix, chat) ==
    [isFile |-> isFile, suffix |-> suffix, chat_id |-> chat]

NoReq == Req(FALSE, "", 0)

ChatType(chat) == IF chat = PrivateChat THEN "private" ELSE "group"

\* the failures of the surroundings of the Forwarder
AllFaults == { "build", "transport", "upstream", "copy", "store" }

\* the outcomes of a step that fails only by a failure of kind f: TRUE is
\* success
Outcomes(f) == IF f \in env.faults THEN BOOLEAN ELSE { TRUE }

\* sends to a private and to a group chat
SendMenu ==
    { Req(FALSE, "sendMessage", PrivateChat),
      Req(FALSE, "sendMessage", GroupChat) }

\* a media group sent to a group chat, a send to a private chat, an edit, a
\* send whose answer carries no chat id, a method without an echo handler,
\* and a request on the file route
EchoMenu ==
    { Req(FALSE, "sendMediaGroup", GroupChat),
      Req(FALSE, "sendMessage", PrivateChat),
      Req(FALSE, "editMessageText", PrivateChat),
      Req(FALSE, "sendMessage", 0),
      Req(FALSE, "getMe", 0),
      Req(TRUE, "sendMessage", PrivateChat) }

\* message_id of the i-th message of the answer to the n-th request
MsgID(n, i) == 10 * n + i

\* kind tells what result is: "message", "array" (of messages), "true" or
\* "other"; msgs holds the message or the messages
Answer(status, ok, kind, msgs) ==
    [status |-> status, ok |-> ok, kind |-> kind, msgs |-> msgs]

NoAnswer == Answer(0, FALSE, "other", << >>)

\* the message the upstream answers a send or an edit of request r with
AnswerMsg(r, n, i, rev) ==
    IF r.chat_id = 0 THEN Msg(0, "", MsgID(n, i), rev)
    ELSE Msg(r.chat_id, ChatType(r.chat_id), MsgID(n, i), rev)

\* the answers of the upstream to the n-th request, r
UpstreamAnswers(r, n) ==
    (IF "upstream" \in env.faults
     THEN { Answer(400, FALSE, "other", << >>),
            Answer(502, FALSE, "other", << >>),
            Answer(200, FALSE, "other", << >>) }
     ELSE {})
      \cup
        (IF r.suffix \in SingleSends
         THEN { Answer(200, TRUE, "message", << AnswerMsg(r, n, 1, 0) >>) }
         ELSE IF r.suffix \in ArraySends
         THEN { Answer(200, TRUE, "array",
                       << AnswerMsg(r, n, 1, 0), AnswerMsg(r, n, 2, 0) >>) }
         ELSE IF r.suffix \in Edits
         THEN { Answer(200, TRUE, "true", << >>),
                Answer(200, TRUE, "message", << AnswerMsg(r, n, 1, 1) >>) }
         ELSE { Answer(200, TRUE, "other", << >>) })

(***************************************************************************)
(* The Forwarder: Client.ForwardRequest and the echo handlers.  The field  *)
(* calls of a task is the history of the calls its echo handler made, in   *)
(* order.                                                                  *)
(***************************************************************************)
IdleFw ==
    [pc |-> "idle", n |-> 0, req |-> NoReq, resp |-> NoAnswer, wakeAt |-> 0,
     due |-> 0, rlNow |-> 0, ei |-> 1, written |-> "none",
     clientGot |-> FALSE, seenAfter |-> "none", notifies |-> 0, ret |-> "",
     txFailed |-> FALSE, storeFailed |-> FALSE, calls |-> << >>]

\* a variant that looks the handler up on the file route too
HandlerOnEveryRoute(p) == echoProcessor(fw[p].req.suffix)

\* the echo handler of task p's request
Handler(p) ==
    IF fw[p].req.isFile THEN "nil" ELSE echoProcessor(fw[p].req.suffix)

\* where a task is while it serves no request
Free == { "idle", "done", "panicked" }

\* a downstream request arrives and the first free task starts serving it
FwdStart(p) ==
    /\ fw[p].pc \in Free
    /\ \A q \in Procs : q < p => fw[q].pc \notin Free
    /\ started < env.requests
    /\ \E r \in env.menu :
        fw' = [fw EXCEPT ![p] = [IdleFw EXCEPT !.pc = "wait",
                                               !.n = started + 1,
                                               !.req = r]]
    /\ started' = started + 1
    /\ UNCHANGED << conf, ingestVars, storeVars, rateVars, env, owed,
                    lastSend >>

\* the cooldown is read under RLock, which waits while a task holds Lock;
\* the task sleeps when the cooldown lies in the future
FwdWait(p) ==
    /\ fw[p].pc = "wait"
    /\ LET r == fw[p].req
           cooldown == Cooldown(r.chat_id)
           sleep == cooldown - now
       IN  IF ~ r.isFile /\ r.chat_id # 0
           THEN /\ cooldownMutex = 0
                /\ fw' = [fw EXCEPT ![p].due = MapGet(owed, r.chat_id),
                                    ![p].wakeAt = IF sleep > 0 THEN cooldown
                                                  ELSE 0,
                                    ![p].pc = IF sleep > 0 THEN "sleeping"
                                              ELSE "forward"]
           ELSE fw' = [fw EXCEPT ![p].pc = "forward"]
    /\ UNCHANGED << conf, ingestVars, storeVars, rateVars, started, env,
                    owed, lastSend >>

\* time.After(sleep) fires
FwdSleepDone(p) ==
    /\ fw[p].pc = "sleeping"
    /\ now >= fw[p].wakeAt
    /\ fw' = [fw EXCEPT ![p].pc = "forward", ![p].wakeAt = 0]
    /\ UNCHANGED << conf, ingestVars, storeVars, rateVars, started, env,
                    owed, lastSend >>

\* ctx.Done() fires first
FwdSleepCancel(p) ==
    /\ fw[p].pc = "sleeping"
    /\ fw' = [fw EXCEPT ![p].pc = "done", ![p].ret = "context.Canceled",
                        ![p].wakeAt = 0, ![p].due = 0]
    /\ UNCHANGED << conf, ingestVars, storeVars, rateVars, started, env,
                    owed, lastSend >>

\* the request is a send with a numeric chat_id on the API route
IsSendTo(r) ==
    /\ ~ r.isFile
    /\ r.chat_id # 0
    /\ r.suffix \in SingleSends \cup ArraySends

\* the upstream request is built and sent
FwdDo(p) ==
    /\ fw[p].pc = "forward"
    /\ \E built \in Outcomes("build") :
        IF built
        THEN /\ fw' = [fw EXCEPT ![p].pc = "upstream", ![p].due = 0]
             /\ lastSend' = IF IsSendTo(fw[p].req)
                            THEN MapSet(lastSend, fw[p].req.chat_id, now)
                            ELSE lastSend
        ELSE /\ fw' = [fw EXCEPT ![p].pc = "done", ![p].due = 0,
                                 ![p].ret = "failed to send HTTP request"]
             /\ UNCHANGED lastSend
    /\ UNCHANGED << conf, ingestVars, storeVars, rateVars, started, env,
                    owed >>

\* http.DefaultClient.Do returns; the headers and the status are written
FwdResp(p) ==
    /\ fw[p].pc = "upstream"
    /\ \/ /\ "transport" \in env.faults
          /\ fw' = [fw EXCEPT ![p].pc = "done",
                              ![p].ret = "upstream HTTP request error"]
       \/ \E a \in UpstreamAnswers(fw[p].req, fw[p].n) :
            fw' = [fw EXCEPT ![p].pc = "copy", ![p].resp = a]
    /\ UNCHANGED << conf, ingestVars, storeVars, rateVars, started, env,
                    owed, lastSend >>

\* the body is copied to the downstream writer; with an echo handler and a
\* 2xx status it is teed into bodyCopy, and the handler runs when the copy
\* ended without error
FwdCopy(p) ==
    /\ fw[p].pc = "copy"
    /\ \E copied \in Outcomes("copy") :
        LET status == fw[p].resp.status
            written == IF copied THEN "all" ELSE "partial"
        IN  IF Handler(p) = "nil" \/ status < 200 \/ status >= 300
            THEN fw' = [fw EXCEPT ![p].written = written, ![p].pc = "done",
                                  ![p].ret = "nil"]
            ELSE IF ~ copied
            THEN fw' = [fw EXCEPT ![p].written = written, ![p].pc = "done",
                                  ![p].ret = "nil"]
            ELSE fw' = [fw EXCEPT ![p].written = written, ![p].pc = "echo"]
    /\ UNCHANGED << conf, ingestVars, storeVars, rateVars, started, env,
                    owed, lastSend >>

\* a variant whose edit handler does not look for result == true
FwdEchoNoAckCheck(p) ==
    /\ fw[p].pc = "echo"
    /\ LET h == Handler(p)
       IN  IF ~ fw[p].resp.ok
           THEN fw' = [fw EXCEPT ![p].pc = "done", ![p].ret = "nil"]
           ELSE IF h = "processEchoMessage"
           THEN fw' = [fw EXCEPT ![p].pc = "rate"]
           ELSE fw' = [fw EXCEPT ![p].pc = "begin"]
    /\ UNCHANGED << conf, ingestVars, storeVars, rateVars, started, env,
                    owed, lastSend >>

\* the echo handler starts: it returns when ok is not true, and the edit
\* handler returns when result is true
FwdEcho(p) ==
    /\ fw[p].pc = "echo"
    /\ LET h == Handler(p)
       IN  IF ~ fw[p].resp.ok
           THEN fw' = [fw EXCEPT ![p].pc = "done", ![p].ret = "nil"]
           ELSE IF h = "processEchoMessage"
           THEN fw' = [fw EXCEPT ![p].pc = "rate"]
           ELSE IF h = "processEchoMessageEdit" /\ fw[p].resp.kind = "true"
           THEN fw' = [fw EXCEPT ![p].pc = "done", ![p].ret = "nil"]
           ELSE fw' = [fw EXCEPT ![p].pc = "begin"]
    /\ UNCHANGED << conf, ingestVars, storeVars, rateVars, started, env,
                    owed, lastSend >>

\* updateRateLimit: now := time.Now()
FwdRateNow(p) ==
    /\ fw[p].pc = "rate"
    /\ fw' = [fw EXCEPT ![p].pc = "ratelock", ![p].rlNow = now,
                        ![p].calls = Append(@, "updateRateLimit")]
    /\ UNCHANGED << conf, ingestVars, storeVars, rateVars, started, env,
                    owed, lastSend >>

\* updateRateLimit: c.cooldownMutex.Lock() and the write of globalCooldown
FwdRateLock(p) ==
    /\ fw[p].pc = "ratelock"
    /\ cooldownMutex = 0
    /\ cooldownMutex' = p
    /\ globalCooldown' = GlobalAfter(fw[p].rlNow)
    /\ fw' = [fw EXCEPT ![p].pc = "rateheld"]
    /\ UNCHANGED << conf, ingestVars, storeVars, now, chatCooldown, started,
                    env, owed, lastSend >>

\* updateRateLimit: Unlock() at once when the message has no chat id, else
\* the write of chatCooldown[chatID] and Unlock()
FwdRateUnlock(p) ==
    /\ fw[p].pc = "rateheld"
    /\ LET message == fw[p].resp.msgs[fw[p].ei]
           chatID == message.chat_id
           until == ChatAfter(fw[p].rlNow, message.chat_type)
       IN  IF chatID = 0
           THEN UNCHANGED << chatCooldown, owed >>
           ELSE /\ chatCooldown' = MapSet(chatCooldown, chatID, until)
                /\ owed' = MapSet(owed, chatID,
                                  Max(MapGet(owed, chatID), until))
    /\ cooldownMutex' = 0
    /\ fw' = [fw EXCEPT ![p].rlNow = 0,
                        ![p].pc = IF Handler(p) = "processEchoMessage"
                                  THEN "begin" ELSE "insert"]
    /\ UNCHANGED << conf, ingestVars, storeVars, now, globalCooldown,
                    started, env, lastSend >>

\* c.db.BeginTx(): a failure is logged and the handler goes on
FwdBegin(p) ==
    /\ fw[p].pc = "begin"
    /\ LET next == IF Handler(p) # "processEchoMessageArray" THEN "insert"
                   ELSE IF fw[p].resp.msgs = << >> THEN "commit"
                   ELSE "rate"
       IN  \E ok \in Outcomes("store") :
            IF ok
            THEN /\ tx' = [tx EXCEPT ![p] = TxBegun]
                 /\ fw' = [fw EXCEPT ![p].pc = next,
                                     ![p].calls = Append(@, "BeginTx")]
            ELSE /\ fw' = [fw EXCEPT ![p].pc = next, ![p].txFailed = TRUE,
                                     ![p].storeFailed = TRUE,
                                     ![p].calls = Append(@, "BeginTx")]
                 /\ UNCHANGED tx
    /\ UNCHANGED << conf, ingestVars, updates, cache, nextLocalID,
                    lastCommit, rateVars, started, env, owed, lastSend >>

\* a variant that inserts every echo as an edit
EchoKindAlwaysEdit(p) == "edited_message"

\* the kind of update the handler of task p inserts
EchoKind(p) ==
    IF Handler(p) = "processEchoMessageEdit" THEN "edited_message"
    ELSE "message"

\* the calls an echo handler makes for one message of the result
InsertCalls == << "InsertMessage", "InsertLocalUpdate" >>

\* tx.InsertMessage and tx.InsertLocalUpdate for one message: failures are
\* logged and the handler goes on.  On the transaction of a failed BeginTx
\* the calls either panic or return errors.
FwdInsert(p) ==
    /\ fw[p].pc = "insert"
    /\ LET message == fw[p].resp.msgs[fw[p].ei]
           more == /\ Handler(p) = "processEchoMessageArray"
                   /\ fw[p].ei < Len(fw[p].resp.msgs)
           next == IF more THEN "rate" ELSE "commit"
           ei == IF more THEN fw[p].ei + 1 ELSE fw[p].ei
       IN  IF fw[p].txFailed
           THEN /\ \/ fw' = [fw EXCEPT ![p].pc = "panicked",
                                       ![p].ret = "panic",
                                       ![p].calls =
                                          Append(@, "InsertMessage")]
                   \/ fw' = [fw EXCEPT ![p].pc = next, ![p].ei = ei,
                                       ![p].calls = @ \o InsertCalls]
                /\ UNCHANGED << tx, nextLocalID >>
           ELSE \E mok \in Outcomes("store"), uok \in Outcomes("store") :
                 LET cached == IF mok THEN TxUpsertMessage(tx[p], message)
                               ELSE tx[p]
                 IN  /\ tx' = [tx EXCEPT ![p] =
                                 IF uok
                                 THEN TxInsertUpdate(cached, nextLocalID, 0,
                                                     EchoKind(p), message,
                                                     "local")
                                 ELSE cached]
                     /\ nextLocalID' = IF uok THEN nextLocalID + 1
                                       ELSE nextLocalID
                     /\ fw' = [fw EXCEPT ![p].pc = next, ![p].ei = ei,
                                         ![p].calls = @ \o InsertCalls,
                                         ![p].storeFailed =
                                            @ \/ ~ mok \/ ~ uok]
    /\ UNCHANGED << conf, ingestVars, updates, cache, lastCommit, rateVars,
                    started, env, owed, lastSend >>

\* the calls that end an echo handler
CommitCalls == << "Commit", "NotifyUpdates" >>

\* tx.Commit(), its failure logged, then c.db.NotifyUpdates()
FwdCommit(p) ==
    /\ fw[p].pc = "commit"
    /\ IF fw[p].txFailed
       THEN /\ \/ fw' = [fw EXCEPT ![p].pc = "panicked", ![p].ret = "panic",
                                   ![p].calls = Append(@, "Commit")]
               \/ fw' = [fw EXCEPT ![p].pc = "done", ![p].ret = "nil",
                                   ![p].notifies = @ + 1,
                                   ![p].calls = @ \o CommitCalls]
            /\ UNCHANGED << tx, updates, cache, lastCommit >>
       ELSE \E ok \in Outcomes("store") :
             /\ Commit(p, ok)
             /\ fw' = [fw EXCEPT ![p].pc = "done", ![p].ret = "nil",
                                 ![p].notifies = @ + 1,
                                 ![p].calls = @ \o CommitCalls,
                                 ![p].storeFailed = @ \/ ~ ok]
    /\ UNCHANGED << conf, ingestVars, nextLocalID, rateVars, started, env,
                    owed, lastSend >>

\* the committed updates that echo the answer to task p's request
EchoRows(p) ==
    { i \in DOMAIN updates :
        /\ updates[i].origin = "local"
        /\ \E j \in DOMAIN fw[p].resp.msgs :
             updates[i].payload = fw[p].resp.msgs[j] }

\* the downstream client has the whole response: what io.Copy wrote to the
\* http.ResponseWriter may reach the client at any time from the write on
ClientReceives(p) ==
    /\ fw[p].written = "all"
    /\ ~ fw[p].clientGot
    /\ fw' = [fw EXCEPT ![p].clientGot = TRUE]
    /\ UNCHANGED << conf, ingestVars, storeVars, rateVars, started, env,
                    owed, lastSend >>

\* a consumer's fetch_updates returns without waiting (its timeout is 0 or
\* over, or other updates are there) with what is committed; each task whose
\* client has its response notes whether its echo was among it
FetchUpdates ==
    /\ \E p \in Procs : fw[p].clientGot /\ fw[p].seenAfter = "none"
    /\ fw' = [p \in Procs |->
                IF fw[p].clientGot /\ fw[p].seenAfter = "none"
                THEN [fw[p] EXCEPT !.seenAfter =
                        IF EchoRows(p) # {} THEN "seen" ELSE "missed"]
                ELSE fw[p]]
    /\ UNCHANGED << conf, ingestVars, storeVars, rateVars, started, env,
                    owed, lastSend >>

\* time passes
Tick ==
    /\ now < MaxTime
    /\ now' = now + 1
    /\ UNCHANGED << conf, ingestVars, storeVars, globalCooldown,
                    chatCooldown, cooldownMutex, fw, started, env, owed,
                    lastSend >>

ForwarderStep(p) ==
    \/ FwdStart(p)
    \/ FwdWait(p)
    \/ FwdSleepDone(p)
    \/ FwdSleepCancel(p)
    \/ FwdDo(p)
    \/ FwdResp(p)
    \/ FwdCopy(p)
    \/ FwdEcho(p)
    \/ FwdRateNow(p)
    \/ FwdRateLock(p)
    \/ FwdRateUnlock(p)
    \/ FwdBegin(p)
    \/ FwdInsert(p)
    \/ FwdCommit(p)

(***************************************************************************)
(* Specifications.                                                         *)
(***************************************************************************)
\* the state NewClient leaves, before any task runs
Start ==
    /\ ipc = "compose"
    /\ offset = 0
    /\ sentOffset = [has |-> FALSE, val |-> 0]
    /\ lastResp = NoResp
    /\ batch = << >>
    /\ bi = 1
    /\ nextRetryInterval = TimeSecond
    /\ ctxCancelled = FALSE
    /\ pollReturn = ""
    /\ updates = << >>
    /\ cache = {}
    /\ nextLocalID = 1
    /\ tx = [o \in Tasks |-> NoTx]
    /\ lastCommit = [rows |-> << >>, msgs |-> << >>]
    /\ sleepLog = << >>
    /\ iterNotifies = 0
    /\ failedUIDs = {}
    /\ now = 0
    /\ globalCooldown = 0
    /\ chatCooldown = << >>
    /\ cooldownMutex = 0
    /\ fw = [p \in Procs |-> IdleFw]
    /\ started = 0
    /\ owed = << >>
    /\ lastSend = << >>

\* the Ingestor alone, under every configuration of the retry interval
InitPoll ==
    /\ Start
    /\ conf \in [MaxRetryInterval : MaxRetryChoices, urlOK : BOOLEAN]
    /\ env = [menu |-> {}, requests |-> 0, faults |-> {}]

NextPoll == IngestorStep \/ PollCancel

SpecPoll == InitPoll /\ [][NextPoll]_vars

\* the Forwarder tasks serving sends under every failure, the clients, a
\* consumer and the clock
InitFwd ==
    /\ Start
    /\ conf = [MaxRetryInterval |-> ToLimbs(600, Limbs), urlOK |-> TRUE]
    /\ env = [menu |-> SendMenu, requests |-> FwdRequests,
              faults |-> AllFaults]

NextFwd ==
    \/ \E p \in Procs : ForwarderStep(p)
    \/ \E p \in Procs : ClientReceives(p)
    \/ FetchUpdates
    \/ Tick

SpecFwd == InitFwd /\ [][NextFwd]_vars

\* the Forwarder tasks serving sends that all succeed, and the clock
InitRate ==
    /\ Start
    /\ conf = [MaxRetryInterval |-> ToLimbs(600, Limbs), urlOK |-> TRUE]
    /\ env = [menu |-> SendMenu, requests |-> MaxRequests, faults |-> {}]

NextRate ==
    \/ \E p \in Procs : ForwarderStep(p)
    \/ Tick

SpecRate == InitRate /\ [][NextRate]_vars

\* the Forwarder tasks serving the requests of EchoMenu, with failing
\* upstream answers and a failing store, and the clock
InitEcho ==
    /\ Start
    /\ conf = [MaxRetryInterval |-> ToLimbs(600, Limbs), urlOK |-> TRUE]
    /\ env = [menu |-> EchoMenu, requests |-> FwdRequests,
              faults |-> { "upstream", "store" }]

NextEcho ==
    \/ \E p \in Procs : ForwarderStep(p)
    \/ Tick

SpecEcho == InitEcho /\ [][NextEcho]_vars

\* the Ingestor's goroutine keeps being scheduled, and every HTTP request
\* and every time.Sleep ends
SpecPollFair ==
    /\ SpecPoll
    /\ WF_vars(PollCompose)
    /\ WF_vars(PollDo)
    /\ WF_vars(PollBegin)
    /\ WF_vars(PollInsert)
    /\ WF_vars(PollFailCommit)
    /\ WF_vars(PollCommit)
    /\ WF_vars(PollWake)

(***************************************************************************)
(* Properties of the Ingestor.                                             *)
(***************************************************************************)
\* the update_ids of the committed updates
CommittedUIDs == { updates[i].update_id : i \in DOMAIN updates }

\* C2: the upstream offset passes an update only after the transaction
\* holding that update has committed, and after an insert or the commit
\* failed for an update the offset of the next getUpdates request is not
\* greater than that update's update_id.
C2_OffsetOnlyAfterCommit ==
    /\ \A u \in FirstUpdateID..LastUpdateID :
         (ipc \in { "compose", "inflight" } /\ offset > u)
            => u \in CommittedUIDs
    /\ (ipc = "inflight" /\ sentOffset.has)
         => \A u \in failedUIDs : sentOffset.val <= u

\* the wider word the claimed sleeps are computed in, without wrapping
WideLimbs == 2 * Limbs

\* min(2^(i-1), max_retry_interval) seconds, in nanoseconds
ClaimedSleep(i) ==
    LET doubled == ToLimbs(2 ^ (i - 1), WideLimbs)
        maxRetry == Widen(conf.MaxRetryInterval, WideLimbs)
    IN  MulBillion(IF UnsignedLess(maxRetry, doubled, WideLimbs)
                   THEN maxRetry ELSE doubled)

\* C5: the sleeps since the last reset are 1, 2, 4, 8, ... seconds, each
\* capped at max_retry_interval seconds.
C5_BackoffSequence ==
    \A i \in DOMAIN sleepLog :
        /\ ~ IsNeg(sleepLog[i])
        /\ Widen(sleepLog[i], WideLimbs) = ClaimedSleep(i)

\* a 4xx status
Is4xx(r) == ~ r.err /\ r.status \in 400..499

\* C6: a 4xx answer to getUpdates ends StartPolling with an error in that
\* iteration, with no sleep, no transaction, no notify and the offset as it
\* was; no other outcome of the request, and no storage failure, ends it.
C6_FatalOnly4xx ==
    [][ /\ (ipc = "inflight" /\ ipc' # "inflight" /\ Is4xx(lastResp'))
           => /\ ipc' = "done"
              /\ pollReturn' # ""
              /\ offset' = offset
              /\ sleepLog' = sleepLog
              /\ nextRetryInterval' = nextRetryInterval
              /\ iterNotifies' = iterNotifies
              /\ UNCHANGED storeVars
        /\ (ipc = "inflight" /\ ipc' # "inflight" /\ ~ Is4xx(lastResp'))
           => (ipc' # "done" /\ pollReturn' = "")
        /\ (ipc \in { "begin", "insert", "commit", "failcommit", "sleep" })
           => (ipc' # "done" /\ pollReturn' = "")
      ]_vars

\* a 401 ended the loop after the offset had moved
C6_Witness ==
    /\ ipc = "done"
    /\ lastResp.status = 401
    /\ offset > FirstUpdateID
    /\ sleepLog # << >>

\* the transient ways a getUpdates request ends: transport error, 5xx,
\* body-read failure, 2xx with ok != true
Transient(r) ==
    \/ r.err
    \/ r.status \in 500..599
    \/ (r.status \in 200..299 /\ (~ r.readOK \/ ~ r.ok))

\* C7: a transient failure of getUpdates leaves the offset and the Store as
\* they were; the Ingestor sleeps the current interval, then issues
\* getUpdates with the same offset, and it always comes back to issue it.
C7_TransientRetry ==
    /\ [][ /\ (ipc = "inflight" /\ ipc' # "inflight" /\ Transient(lastResp'))
              => /\ ipc' = "sleep"
                 /\ offset' = offset
                 /\ sleepLog' = Logged(nextRetryInterval)
                 /\ UNCHANGED storeVars
           /\ (ipc = "sleep" /\ Transient(lastResp))
              => /\ ipc' \in { "sleep", "compose" }
                 /\ offset' = offset
                 /\ UNCHANGED storeVars
           /\ (ipc = "compose" /\ ipc' # "compose" /\ Transient(lastResp))
              => /\ ipc' = "inflight"
                 /\ sentOffset' = sentOffset
                 /\ UNCHANGED storeVars
         ]_vars
    /\ [](ipc = "sleep" => ENABLED PollWake)
    /\ []((ipc = "compose" /\ conf.urlOK) => ENABLED PollCompose)

\* a 502 was answered after the offset had moved, and the request is out
\* again
C7_Witness ==
    /\ ipc = "inflight"
    /\ lastResp.status = 502
    /\ sentOffset.has
    /\ Len(sleepLog) >= 2
    /\ updates # << >>

\* C8: once the context is cancelled, StartPolling returns.
C8_CancelTerminates == ctxCancelled ~> (ipc = "done")

\* C10 (commits of the Ingestor and of the echo handlers): a commit holds
\* the cache upsert of a payload exactly when it holds the Update insert of
\* that payload.
C10_CachePairedWithUpdate ==
    { lastCommit.msgs[i] : i \in DOMAIN lastCommit.msgs }
      = { lastCommit.rows[i].payload :
            i \in { j \in DOMAIN lastCommit.rows :
                      /\ lastCommit.rows[j].kind \in typesNeedCaching
                      /\ HasKey(lastCommit.rows[j].payload) } }

(***************************************************************************)
(* Claims about the Forwarder.                                             *)
(***************************************************************************)
\* C1: a consumer that fetches after the client of a request got the whole
\* response sees the echo of that request, whenever the echo is committed
C1_EchoBeforeResponse ==
    \A p \in Procs :
        (fw[p].pc = "done" /\ EchoRows(p) # {}) => fw[p].seenAfter # "missed"

\* the cooldown window of a chat
ChatWindow(chat) == ChatAfter(0, ChatType(chat))

\* C3: a send to chat k is forwarded upstream no sooner than the chat's
\* cooldown window after the send to chat k forwarded before it
C3_SendsSpaced ==
    [][\A p \in Procs :
         (/\ fw[p].pc = "forward"
          /\ fw'[p].pc = "upstream"
          /\ IsSendTo(fw[p].req)
          /\ fw[p].req.chat_id \in DOMAIN lastSend)
            => now - lastSend[fw[p].req.chat_id]
                  >= ChatWindow(fw[p].req.chat_id)]_vars

\* C4: a request for chat k is forwarded upstream no sooner than the latest
\* deadline that the calls of updateRateLimit for chat k, completed when its
\* wait started, set
C4_WaitCoversObserved ==
    [][\A p \in Procs :
         (fw[p].pc \in { "wait", "sleeping" } /\ fw'[p].pc = "forward")
            => now >= fw'[p].due]_vars

\* the upstream accepted task p's request with a message or messages
Accepted(p) ==
    /\ Handler(p) # "nil"
    /\ fw[p].resp.status >= 200
    /\ fw[p].resp.status < 300
    /\ fw[p].resp.ok
    /\ fw[p].resp.msgs # << >>

\* C9: a task that ends on an accepted send or edit, its store calls all
\* succeeding, has committed the echo and notified
C9_AcceptedIsEchoed ==
    \A p \in Procs :
        (fw[p].pc = "done" /\ Accepted(p) /\ ~ fw[p].storeFailed)
            => (EchoRows(p) # {} /\ fw[p].notifies >= 1)

\* the methods of a transaction
TxMethods == { "InsertMessage", "InsertLocalUpdate", "Commit" }

\* C11: a storage failure in an echo handler is logged and the echo dropped:
\* after a failed BeginTx the handler calls no method of the transaction,
\* does not crash, and ForwardRequest returns nil
C11_FailedBeginStops ==
    \A p \in Procs :
        fw[p].txFailed
            => /\ \A i \in DOMAIN fw[p].calls : fw[p].calls[i] \notin TxMethods
               /\ fw[p].pc # "panicked"
               /\ fw[p].pc = "done" => fw[p].ret = "nil"

\* the calls processEchoMessageArray makes for a result of n messages
RECURSIVE ArrayCalls(_)
ArrayCalls(n) ==
    IF n = 0 THEN << "BeginTx" >>
    ELSE ArrayCalls(n - 1)
           \o << "updateRateLimit", "InsertMessage", "InsertLocalUpdate" >>

\* task p has run processEchoMessageArray to its end on an accepted result
ArrayDone(p) ==
    /\ fw[p].pc = "done"
    /\ Handler(p) = "processEchoMessageArray"
    /\ Accepted(p)
    /\ fw[p].calls # << >>

\* the place in the update log of the echo of the j-th message of task p
RowOf(p, j) ==
    CHOOSE i \in DOMAIN updates :
        updates[i].origin = "local" /\ updates[i].payload = fw[p].resp.msgs[j]

\* local_id b is the one after a
Consecutive(a, b) == b = a + 1

\* local_id b was assigned after a
Increasing(a, b) == b > a

\* the handler opened one transaction, made for each message in array order
\* one InsertMessage and one InsertLocalUpdate, committed once and notified
\* once after the commit; when no store call failed, the echoes are in the
\* log in array order, as kind "message", their local_ids apart as gap tells
ArrayEchoed(p, gap) ==
    LET n == Len(fw[p].resp.msgs)
    IN  /\ fw[p].calls = ArrayCalls(n) \o CommitCalls
        /\ fw[p].notifies = 1
        /\ ~ fw[p].storeFailed
             => /\ \A j \in 1..n :
                     /\ \E i \in DOMAIN updates :
                          /\ updates[i].origin = "local"
                          /\ updates[i].payload = fw[p].resp.msgs[j]
                     /\ updates[RowOf(p, j)].kind = "message"
                /\ \A j \in 1..(n - 1) :
                     /\ RowOf(p, j + 1) = RowOf(p, j) + 1
                     /\ gap = "consecutive"
                          => Consecutive(updates[RowOf(p, j)].local_id,
                                         updates[RowOf(p, j + 1)].local_id)
                     /\ gap = "increasing"
                          => Increasing(updates[RowOf(p, j)].local_id,
                                        updates[RowOf(p, j + 1)].local_id)

EditAck(p) ==
    /\ ~ fw[p].req.isFile
    /\ fw[p].req.suffix \in Edits
    /\ fw[p].resp.status \in 200..299
    /\ fw[p].resp.ok
    /\ fw[p].resp.kind = "true"

\* C13: on an edit's answer with ok == true and result == true the echo
\* handler returns at once: no transaction, no update, no notify, and the
\* message cache and the cooldowns stay as they are
C13_EditAckNoOp ==
    /\ [][\A p \in Procs :
            (fw[p].pc = "echo" /\ EditAck(p) /\ fw'[p] # fw[p])
               => /\ fw'[p].pc = "done"
                  /\ fw'[p].ret = "nil"
                  /\ UNCHANGED << storeVars, rateVars >>]_vars
    /\ [](\A p \in Procs :
            (EditAck(p) /\ fw[p].pc \notin { "copy", "echo" })
               => /\ fw[p].pc = "done"
                  /\ fw[p].calls = << >>
                  /\ fw[p].notifies = 0
                  /\ tx[p] = NoTx)

\* an edit was acknowledged with result == true and its task has returned,
\* the client having the whole answer
C13_Witness ==
    \E p \in Procs :
        /\ EditAck(p)
        /\ fw[p].pc = "done"
        /\ fw[p].written = "all"

\* task p serves an edit on the API route
IsEdit(p) == ~ fw[p].req.isFile /\ fw[p].req.suffix \in Edits

\* task p serves a send on the API route
IsSend(p) ==
    ~ fw[p].req.isFile /\ fw[p].req.suffix \in SingleSends \cup ArraySends

\* C14: the edit handler never touches the rate limiter: no step of a task
\* serving an edit changes globalCooldown or chatCooldown or takes the lock,
\* whatever the result; only the tasks serving a send call updateRateLimit,
\* and each change of a cooldown is a step of such a call
C14_EditsLeaveCooldowns ==
    /\ \A e \in Edits : echoProcessor(e) = "processEchoMessageEdit"
    /\ [][\A p \in Procs :
            (IsEdit(p) /\ fw'[p] # fw[p] /\ fw[p].pc \notin Free)
               => UNCHANGED << globalCooldown, chatCooldown, cooldownMutex >>
         ]_vars
    /\ [][(globalCooldown' # globalCooldown \/ chatCooldown' # chatCooldown)
            => \E q \in Procs :
                 /\ IsSend(q)
                 /\ fw[q].pc \in { "ratelock", "rateheld" }
                 /\ fw'[q].pc # fw[q].pc]_vars
    /\ [](\A p \in Procs :
            (\E i \in DOMAIN fw[p].calls : fw[p].calls[i] = "updateRateLimit")
               => IsSend(p))

\* an edit answered with a message was echoed, and the chat of the message
\* has no cooldown
C14_Witness ==
    \E p \in Procs :
        /\ IsEdit(p)
        /\ fw[p].pc = "done"
        /\ fw[p].resp.kind = "message"
        /\ EchoRows(p) # {}
        /\ fw[p].resp.msgs[1].chat_id \notin DOMAIN chatCooldown

\* no echo handler is to run for task p: the request is on the file route,
\* its method has no entry in the echo table, or the status is not 2xx
NoHandler(p) ==
    \/ fw[p].req.isFile
    \/ fw[p].req.suffix \notin SingleSends \cup ArraySends \cup Edits
    \/ fw[p].resp.status \notin 200..299

\* what a task does once its echo handler has something to inject
Injecting ==
    { "rate", "ratelock", "rateheld", "begin", "insert", "commit",
      "panicked" }

\* C16: a handler given a body without ok == true returns without
\* injecting, and no handler runs on the file route, for a method without
\* an entry in the echo table, or for a status outside [200, 300): no
\* transaction, no update, no cache entry, no change of a cooldown, no notify
C16_NoEchoWithoutOk ==
    /\ [][\A p \in Procs :
            (/\ fw'[p] # fw[p]
             /\ \/ fw[p].pc = "copy" /\ NoHandler(p)
                \/ fw[p].pc = "echo" /\ ~ fw[p].resp.ok)
               => /\ fw'[p].pc = "done"
                  /\ fw'[p].ret = "nil"
                  /\ UNCHANGED << storeVars, rateVars >>]_vars
    /\ [](\A p \in Procs :
            (NoHandler(p) \/ ~ fw[p].resp.ok)
               => /\ fw[p].pc \notin Injecting
                  /\ fw[p].calls = << >>
                  /\ fw[p].notifies = 0
                  /\ tx[p] = NoTx)

\* a send on the file route was answered 200 with ok == true, a send with
\* an echo handler was answered 200 without ok == true, and both tasks have
\* returned
C16_Witness ==
    \E p \in Procs, q \in Procs :
        /\ fw[p].pc = "done"
        /\ fw[p].req.isFile
        /\ fw[p].req.suffix \in SingleSends
        /\ fw[p].resp.status = 200
        /\ fw[p].resp.ok
        /\ fw[q].pc = "done"
        /\ ~ fw[q].req.isFile
        /\ fw[q].req.suffix \in SingleSends \cup ArraySends
        /\ fw[q].resp.status = 200
        /\ ~ fw[q].resp.ok
        /\ fw[q].written = "all"

\* the rows of the Ingestor's transaction are the first updates of the
\* batch, in upstream order
RowsArePrefix ==
    LET rows == tx[Ingestor].rows
    IN  /\ Len(rows) <= Len(batch)
        /\ \A i \in DOMAIN rows :
             /\ rows[i].update_id = batch[i].update_id
             /\ rows[i].kind = batch[i].type
             /\ rows[i].origin = "upstream"

\* C15 as claimed: every iteration that got a 2xx answer with ok == true
\* calls notify exactly once before it sleeps or polls again, and after an
\* insert failure the updates inserted before it are committed
C15_NotifyOncePerIteration ==
    [][(ipc \in { "begin", "commit", "failcommit" }
          /\ ipc' \in { "sleep", "compose" })
         => /\ iterNotifies' = 1
            /\ ipc = "failcommit"
                 => updates' = updates \o tx[Ingestor].rows]_vars

\* C15 as it holds: every iteration that opened its transaction calls
\* notify exactly once, with the commit attempt and before it sleeps or
\* polls again; what that commit holds is a prefix of the batch in upstream
\* order, committed whole when the commit succeeds and not at all when it
\* fails; an iteration whose BeginTx fails sleeps without calling notify
C15_NotifyOncePerTx ==
    /\ [][(ipc \in { "commit", "failcommit" } /\ ipc' # ipc)
            => /\ ipc' \in { "sleep", "compose" }
               /\ iterNotifies = 0
               /\ iterNotifies' = 1
               /\ RowsArePrefix
               /\ ipc = "commit" => Len(tx[Ingestor].rows) = Len(batch)
               /\ \/ updates' = updates \o tx[Ingestor].rows
                  \/ updates' = updates /\ ipc' = "sleep"]_vars
    /\ [][(ipc = "begin" /\ ipc' = "sleep")
            => (iterNotifies' = 0 /\ UNCHANGED updates)]_vars
    /\ [](ipc \in { "inflight", "begin", "insert", "commit", "failcommit" }
            => iterNotifies = 0)

\* the second insert of a batch of two failed: notify was called once, the
\* first update is committed, and the Ingestor sleeps
C15_Witness ==
    /\ ipc = "sleep"
    /\ iterNotifies = 1
    /\ Len(batch) = 2
    /\ failedUIDs = { batch[2].update_id }
    /\ \E i \in DOMAIN updates : updates[i].update_id = batch[1].update_id

\* the message updateRateLimit was called with by task p
RateMessage(p) == fw[p].resp.msgs[fw[p].ei]

\* C17: updateRateLimit called at time now sets globalCooldown to
\* now + 1/30 s + 1 in every case; with a chat id it sets that chat's entry to
\* now + 1 s for a private chat and now + 3 s otherwise and leaves the other
\* entries alone; without a chat id it changes globalCooldown only; the
\* write lock is held by the caller in between and released on both paths,
\* and nothing else writes the cooldowns
C17_UpdateRateLimit ==
    /\ [][\A p \in Procs :
            (fw[p].pc = "ratelock" /\ fw'[p].pc # "ratelock")
              => /\ fw'[p].pc = "rateheld"
                 /\ cooldownMutex = 0 /\ cooldownMutex' = p
                 /\ globalCooldown' = fw[p].rlNow + (OneSecond \div 30 + 1)
                 /\ chatCooldown' = chatCooldown]_vars
    /\ [][\A p \in Procs :
            (fw[p].pc = "rateheld" /\ fw'[p].pc # "rateheld")
              => LET chatID == RateMessage(p).chat_id
                     t == fw[p].rlNow
                 IN  /\ cooldownMutex' = 0
                     /\ globalCooldown' = t + (OneSecond \div 30 + 1)
                     /\ globalCooldown' = globalCooldown
                     /\ IF chatID = 0
                        THEN chatCooldown' = chatCooldown
                        ELSE /\ DOMAIN chatCooldown'
                                  = DOMAIN chatCooldown \cup { chatID }
                             /\ chatCooldown'[chatID]
                                  = IF RateMessage(p).chat_type = "private"
                                    THEN t + OneSecond
                                    ELSE t + 3 * OneSecond
                             /\ \A k \in DOMAIN chatCooldown \ { chatID } :
                                  chatCooldown'[k] = chatCooldown[k]]_vars
    /\ [][(globalCooldown' # globalCooldown \/ chatCooldown' # chatCooldown)
            => \E p \in Procs : fw[p].pc \in { "ratelock", "rateheld" }
                                  /\ fw'[p].pc # fw[p].pc]_vars
    /\ [](\A p \in Procs : fw[p].pc = "rateheld" <=> cooldownMutex = p)

\* both branches were taken and the lock is free again: a private chat holds
\* a deadline one second after its call, a group chat one three seconds after
C17_Witness ==
    /\ cooldownMutex = 0
    /\ \A p \in Procs : fw[p].pc \notin { "ratelock", "rateheld" }
    /\ PrivateChat \in DOMAIN chatCooldown
    /\ GroupChat \in DOMAIN chatCooldown
    /\ chatCooldown[GroupChat] - chatCooldown[PrivateChat]
         = 2 * OneSecond
    /\ globalCooldown > 0

\* C18: no call of updateRateLimit moves a cooldown deadline backwards:
\* globalCooldown and every entry of chatCooldown are, after any step, at
\* least what they were before it
C18_CooldownsMonotonic ==
    [][/\ globalCooldown' >= globalCooldown
       /\ \A k \in DOMAIN chatCooldown :
            /\ k \in DOMAIN chatCooldown'
            /\ chatCooldown'[k] >= chatCooldown[k]]_vars

\* the committed rows that came from upstream
UpstreamRows == { i \in DOMAIN updates : updates[i].origin = "upstream" }

WideLeq(x, y) == ~ UnsignedLess(y, x, WideLimbs)

\* C20: whatever max_retry_interval Load accepted and whatever sleeps and
\* resets went before, nextRetryInterval is positive, at least one second
\* and at most max_retry_interval seconds
C20_IntervalBounds ==
    /\ ~ IsNeg(nextRetryInterval)
    /\ WideLeq(Widen(TimeSecond, WideLimbs),
               Widen(nextRetryInterval, WideLimbs))
    /\ WideLeq(Widen(nextRetryInterval, WideLimbs),
               MulBillion(Widen(conf.MaxRetryInterval, WideLimbs)))

====
